---- MODULE Spec2Model ----
(***************************************************************************)
(* The per-connection PostgreSQL wire-protocol shim of cubesql             *)
(* (src/sql/postgres/shim.rs, AsyncPostgresShim): startup, cleartext       *)
(* authentication, the dispatch loop, the simple-query path and the        *)
(* extended-query path over the two catalogs (statements, portals).        *)
(*                                                                         *)
(* One action is one read of a frontend packet together with everything    *)
(* the shim does before it reads the next one.  Socket writes are taken    *)
(* to succeed (a write hands bytes to the TCP stream); reads may fail.     *)
(* SQL texts are sequences of tokens, " " being a whitespace character.    *)
(***************************************************************************)
EXTENDS Integers, Sequences, FiniteSets, TLC

\* ------------------------------------------------------------------ bounds
\* Rows a DataFusionSelect plan yields.
MaxRows == 2
\* Largest number of placeholders in a statement the client sends.
MaxParams == 1

\* ------------------------------------------------------------- input sets
Placeholders(k) == [i \in 1..k |-> "$"]

\* SQL texts, as token sequences: blank, SET (no result), SHOW (a small table),
\* a select of the column c, a syntax error, selects of placeholders.
SqlTexts ==
    { <<" ", " ">>, <<"SET">>, <<" ", "SHOW">>, <<"SELECT", "c">>, <<"#">> }
        \cup { <<"SELECT">> \o Placeholders(k) : k \in 1..MaxParams }

\* What transport.meta() can hand back: the data type the metadata gives the
\* column c ("absent": the metadata has no such column), or a failure.
Metas == {"Utf8", "Int64", "Interval", "absent"}
MetaResults == Metas \cup {"fail"}

ResultFormats == { <<>>, <<"Text">>, <<"Binary", "Text">> }

\* What the transport answers during a simple query: the metadata, and whether
\* running the plan succeeds.
QueryEnvs(metas) == { <<meta, TRUE>> : meta \in metas } \cup { <<"Utf8", FALSE>> }

\* What a client sends on one connection: names ("" is the unnamed statement
\* or portal), SQL texts, result formats; and what the transport answers.
Inputs(names, sqls, metas, formats) ==
    [names |-> names, sqls |-> sqls, metas |-> metas, formats |-> formats]

OneName == Inputs({""}, SqlTexts, MetaResults, ResultFormats)

\* A client that uses two names, with fewer texts and a transport that answers
\* with one metadata or fails.
TwoNames ==
    Inputs({"", "s"}, { <<"SET">>, <<"SELECT", "c">>, <<"#">> },
           {"Utf8", "fail"}, { <<>> })

\* ---------------------------------------------------------------- messages
Msg(tag, args, cols, n) == [tag |-> tag, args |-> args, cols |-> cols, n |-> n]

ErrorResponse(severity, code, message) ==
    Msg("ErrorResponse", <<severity, code, message>>, <<>>, 0)
ReadyForQuery == Msg("ReadyForQuery", <<"Idle">>, <<>>, 0)
Authentication(req) == Msg("Authentication", <<req>>, <<>>, 0)
ParameterStatus(key, value) == Msg("ParameterStatus", <<key, value>>, <<>>, 0)
SSLResponse == Msg("SSLResponse", <<>>, <<>>, 0)
ParseComplete == Msg("ParseComplete", <<>>, <<>>, 0)
BindComplete == Msg("BindComplete", <<>>, <<>>, 0)
CloseComplete == Msg("CloseComplete", <<>>, <<>>, 0)
NoData == Msg("NoData", <<>>, <<>>, 0)
EmptyQueryResponse == Msg("EmptyQueryResponse", <<>>, <<>>, 0)
ParameterDescription(types) == Msg("ParameterDescription", types, <<>>, 0)
RowDescription(fields) == Msg("RowDescription", <<>>, fields, 0)
RowDescriptionField(name, typ) == [name |-> name, typ |-> typ]
DataRow(format, i) == Msg("DataRow", <<format>>, <<>>, i)
CommandComplete(tag, n) == Msg("CommandComplete", <<tag>>, <<>>, n)
PortalSuspended == Msg("PortalSuspended", <<>>, <<>>, 0)

\* Option<RowDescription>
NoDescription == [some |-> FALSE, fields |-> <<>>]
SomeDescription(fields) == [some |-> TRUE, fields |-> fields]

\* ------------------------------------------------- external collaborators
\* str::trim on the token sequence.
RECURSIVE trim_start(_)
trim_start(q) == IF q # <<>> /\ Head(q) = " " THEN trim_start(Tail(q)) ELSE q

RECURSIVE trim_end(_)
trim_end(q) ==
    IF q # <<>> /\ q[Len(q)] = " " THEN trim_end(SubSeq(q, 1, Len(q) - 1)) ELSE q

trim(q) == trim_end(trim_start(q))

IsToken(t) == t # " "

\* parse_sql_to_statement: the AST is the sequence of non-blank tokens; "#" is
\* a syntax error, and so is a text without any statement.
parse_sql_to_statement(q) ==
    LET ast == SelectSeq(q, IsToken)
    IN  [ok |-> ast # <<>> /\ \A i \in DOMAIN ast : ast[i] # "#", ast |-> ast]

IsPlaceholder(t) == t = "$"

\* StatementParamsFinder::find: the placeholders of the AST, in order.
StatementParamsFinder_find(ast) == SelectSeq(ast, IsPlaceholder)

\* StatementPlaceholderReplacer::replace: every placeholder becomes a literal.
StatementPlaceholderReplacer_replace(ast) ==
    [i \in DOMAIN ast |-> IF ast[i] = "$" THEN "lit" ELSE ast[i]]

\* PreparedStatement::bind with the values of the Bind message, one per
\* placeholder: every placeholder becomes its value.
PreparedStatement_bind(statement) ==
    [i \in DOMAIN statement.query |->
        IF statement.query[i] = "$" THEN "val" ELSE statement.query[i]]

QueryPlan(kind, cols, nrows) == [kind |-> kind, cols |-> cols, nrows |-> nrows]
NoPlan == QueryPlan("none", <<>>, 0)

\* convert_statement_to_cube_query(statement, meta, session).
convert_statement_to_cube_query(ast, meta) ==
    IF ast = <<>> THEN [ok |-> FALSE, plan |-> NoPlan]
    ELSE IF Head(ast) = "SET"
        THEN [ok |-> TRUE, plan |-> QueryPlan("MetaOk", <<>>, 0)]
    ELSE IF Head(ast) = "SHOW"
        THEN [ok |-> TRUE,
              plan |-> QueryPlan("MetaTabular",
                                 << [name |-> "setting", dtype |-> "Utf8"] >>, 1)]
    ELSE IF Head(ast) = "SELECT"
        THEN LET items == Tail(ast)
                 bad(i) == \/ items[i] = "$"
                           \/ items[i] = "c" /\ meta = "absent"
             IN  IF \E i \in DOMAIN items : bad(i)
                 THEN [ok |-> FALSE, plan |-> NoPlan]
                 ELSE [ok |-> TRUE,
                       plan |-> QueryPlan("DataFusionSelect",
                            [i \in DOMAIN items |->
                                IF items[i] = "c"
                                THEN [name |-> "c", dtype |-> meta]
                                ELSE [name |-> "?column?", dtype |-> "Utf8"]],
                            MaxRows)]
    ELSE [ok |-> FALSE, plan |-> NoPlan]

\* convert_sql_to_cube_query(sql, meta, session): parse, then plan.
convert_sql_to_cube_query(q, meta) ==
    LET p == parse_sql_to_statement(q)
    IN  IF p.ok THEN convert_statement_to_cube_query(p.ast, meta)
        ELSE [ok |-> FALSE, plan |-> NoPlan]

\* df_type_to_pg_tid: "" stands for the Err of an unsupported data type.
df_type_to_pg_tid(dtype) ==
    CASE dtype = "Utf8" -> "TEXT"
      [] dtype = "Int64" -> "INT8"
      [] OTHER -> ""

\* Portal::new(plan, format, description), not yet executed.
Portal_new(plan, format, description) ==
    [plan |-> plan, format |-> format, description |-> description, pos |-> 0]

\* Portal::execute(writer, max_rows): the rows written to the writer, the
\* completion message, and the portal with its cursor advanced.
Portal_execute(portal, max_rows, exec_ok) ==
    LET left == portal.plan.nrows - portal.pos
        n == IF max_rows = 0 \/ max_rows >= left THEN left ELSE max_rows
        tag == IF portal.plan.kind = "MetaOk" THEN "SET" ELSE "SELECT"
    IN  IF ~exec_ok /\ portal.plan.kind = "DataFusionSelect"
        THEN [ok |-> FALSE, rows |-> <<>>, completion |-> NoData, portal |-> portal]
        ELSE [ok |-> TRUE,
              rows |-> [i \in 1..n |-> DataRow(portal.format, portal.pos + i)],
              completion |-> IF portal.pos + n = portal.plan.nrows
                             THEN CommandComplete(tag, n) ELSE PortalSuspended,
              portal |-> [portal EXCEPT !.pos = portal.pos + n]]

\* transport.meta(self.auth_context()?): the lookup of the session's auth
\* context fails with "must be auth" before the transport is asked; answer is
\* what the transport hands back otherwise.
transport_meta(ctx, answer) == IF ~ctx.some THEN "must be auth" ELSE answer

\* ------------------------------------------------------------ the catalogs
\* HashMap<String, Option<PreparedStatement>>, HashMap<String, Option<Portal>>
NoneStatement ==
    [some |-> FALSE, query |-> <<>>, parameters |-> ParameterDescription(<<>>),
     description |-> NoDescription]
SomeStatement(query, parameters, description) ==
    [some |-> TRUE, query |-> query, parameters |-> parameters,
     description |-> description]

NonePortal ==
    [some |-> FALSE, plan |-> NoPlan, format |-> "Text",
     description |-> NoDescription, pos |-> 0]
SomePortal(p) ==
    [some |-> TRUE, plan |-> p.plan, format |-> p.format,
     description |-> p.description, pos |-> p.pos]

EmptyMap == [k \in {} |-> NoneStatement]
insert(map, key, value) ==
    [k \in DOMAIN map \cup {key} |-> IF k = key THEN value ELSE map[k]]
remove(map, key) == [k \in DOMAIN map \ {key} |-> map[k]]

\* ---------------------------------------------------------------- handlers
\* What a handler leaves behind: res is "ok" (Ok(())), "err" (Err, with its
\* message in err) or "panic" (an unwrap() on an Err), out the messages it
\* wrote, statements and portals the catalogs after it, created the Portal it
\* made with Portal::new, if it made one.
Result(res, err, out, stmts, ports) ==
    [res |-> res, err |-> err, out |-> out, statements |-> stmts, portals |-> ports,
     created |-> NonePortal]

Creating(result, portal) == [result EXCEPT !.created = SomePortal(portal)]

sync(stmts, ports) == Result("ok", "", <<ReadyForQuery>>, stmts, ports)

\* Mutant: a missing cursor is also returned as an Err to the dispatch loop.
describe_portal_err(stmts, ports, name) ==
    IF name \notin DOMAIN ports
    THEN Result("err", "missing cursor",
                <<ErrorResponse("Error", "InvalidCursorName", "missing cursor")>>,
                stmts, ports)
    ELSE IF ~ports[name].some \/ ~ports[name].description.some
        THEN Result("ok", "", <<NoData>>, stmts, ports)
    ELSE Result("ok", "", <<RowDescription(ports[name].description.fields)>>,
                stmts, ports)

describe_portal(stmts, ports, name) ==
    IF name \notin DOMAIN ports
    THEN Result("ok", "",
                <<ErrorResponse("Error", "InvalidCursorName", "missing cursor")>>,
                stmts, ports)
    ELSE IF ~ports[name].some THEN Result("ok", "", <<NoData>>, stmts, ports)
    ELSE IF ~ports[name].description.some
        THEN Result("ok", "", <<NoData>>, stmts, ports)
    ELSE Result("ok", "", <<RowDescription(ports[name].description.fields)>>,
                stmts, ports)

\* Mutant: an empty statement is described by NoData alone.
describe_statement_empty_nodata(stmts, ports, name) ==
    IF name \notin DOMAIN stmts
    THEN Result("ok", "",
                <<ErrorResponse("Error", "InvalidSqlStatement", "missing statement")>>,
                stmts, ports)
    ELSE IF ~stmts[name].some THEN Result("ok", "", <<NoData>>, stmts, ports)
    ELSE IF ~stmts[name].description.some
        THEN Result("ok", "", <<stmts[name].parameters, NoData>>, stmts, ports)
    ELSE Result("ok", "",
                <<stmts[name].parameters,
                  RowDescription(stmts[name].description.fields)>>,
                stmts, ports)

\* Mutant: the row description is written before the parameter description.
describe_statement_row_first(stmts, ports, name) ==
    IF name \notin DOMAIN stmts
    THEN Result("ok", "",
                <<ErrorResponse("Error", "InvalidSqlStatement", "missing statement")>>,
                stmts, ports)
    ELSE IF ~stmts[name].some
        THEN Result("ok", "", <<ParameterDescription(<<>>), NoData>>, stmts, ports)
    ELSE IF ~stmts[name].description.some
        THEN Result("ok", "", <<stmts[name].parameters, NoData>>, stmts, ports)
    ELSE Result("ok", "",
                <<RowDescription(stmts[name].description.fields),
                  stmts[name].parameters>>,
                stmts, ports)

describe_statement(stmts, ports, name) ==
    IF name \notin DOMAIN stmts
    THEN Result("ok", "",
                <<ErrorResponse("Error", "InvalidSqlStatement", "missing statement")>>,
                stmts, ports)
    ELSE IF ~stmts[name].some
        THEN Result("ok", "", <<ParameterDescription(<<>>), NoData>>, stmts, ports)
    ELSE IF ~stmts[name].description.some
        THEN Result("ok", "", <<stmts[name].parameters, NoData>>, stmts, ports)
    ELSE Result("ok", "",
                <<stmts[name].parameters,
                  RowDescription(stmts[name].description.fields)>>,
                stmts, ports)

describe(stmts, ports, typ, name) ==
    IF typ = "Statement" THEN describe_statement(stmts, ports, name)
    ELSE describe_portal(stmts, ports, name)

\* Mutant: a Close removes the name from both catalogs.
close_both(stmts, ports, typ, name) ==
    Result("ok", "", <<CloseComplete>>, remove(stmts, name), remove(ports, name))

\* Mutant: closing a name that is not there is an error.
close_strict(stmts, ports, typ, name) ==
    IF typ = "Statement"
    THEN IF name \in DOMAIN stmts
         THEN Result("ok", "", <<CloseComplete>>, remove(stmts, name), ports)
         ELSE Result("err", "unknown statement", <<>>, stmts, ports)
    ELSE IF name \in DOMAIN ports
         THEN Result("ok", "", <<CloseComplete>>, stmts, remove(ports, name))
         ELSE Result("err", "unknown portal", <<>>, stmts, ports)

close(stmts, ports, typ, name) ==
    IF typ = "Statement"
    THEN Result("ok", "", <<CloseComplete>>, remove(stmts, name), ports)
    ELSE Result("ok", "", <<CloseComplete>>, stmts, remove(ports, name))

\* Mutant: a completed Execute is followed by ReadyForQuery.
execute_then_ready(stmts, ports, portal, max_rows, exec_ok) ==
    IF portal \in DOMAIN ports
    THEN IF ~ports[portal].some
         THEN Result("ok", "", <<EmptyQueryResponse>>, stmts, ports)
         ELSE LET e == Portal_execute(ports[portal], max_rows, exec_ok)
              IN  IF ~e.ok
                  THEN Result("panic", "portal execute", <<>>, stmts, ports)
                  ELSE Result("ok", "", e.rows \o <<e.completion, ReadyForQuery>>,
                              stmts, insert(ports, portal, SomePortal(e.portal)))
    ELSE Result("ok", "", <<ReadyForQuery>>, stmts, ports)

\* Mutant: the portal is executed on a copy, the catalog keeps the old cursor.
execute_on_copy(stmts, ports, portal, max_rows, exec_ok) ==
    IF portal \in DOMAIN ports
    THEN IF ~ports[portal].some
         THEN Result("ok", "", <<EmptyQueryResponse>>, stmts, ports)
         ELSE LET e == Portal_execute(ports[portal], max_rows, exec_ok)
              IN  IF ~e.ok
                  THEN Result("panic", "portal execute", <<>>, stmts, ports)
                  ELSE Result("ok", "", e.rows \o <<e.completion>>, stmts, ports)
    ELSE Result("ok", "", <<ReadyForQuery>>, stmts, ports)

\* Mutant: an unknown portal name is an error of the handler.
execute_unknown_err(stmts, ports, portal, max_rows, exec_ok) ==
    IF portal \in DOMAIN ports
    THEN IF ~ports[portal].some
         THEN Result("ok", "", <<EmptyQueryResponse>>, stmts, ports)
         ELSE LET e == Portal_execute(ports[portal], max_rows, exec_ok)
              IN  IF ~e.ok
                  THEN Result("panic", "portal execute", <<>>, stmts, ports)
                  ELSE Result("ok", "", e.rows \o <<e.completion>>, stmts,
                              insert(ports, portal, SomePortal(e.portal)))
    ELSE Result("err", "unknown portal", <<>>, stmts, ports)

execute(stmts, ports, portal, max_rows, exec_ok) ==
    IF portal \in DOMAIN ports
    THEN IF ~ports[portal].some
         THEN Result("ok", "", <<EmptyQueryResponse>>, stmts, ports)
         ELSE LET e == Portal_execute(ports[portal], max_rows, exec_ok)
              IN  IF ~e.ok
                  THEN Result("panic", "portal execute", <<>>, stmts, ports)
                  ELSE Result("ok", "", e.rows \o <<e.completion>>, stmts,
                              insert(ports, portal, SomePortal(e.portal)))
    ELSE Result("ok", "", <<ReadyForQuery>>, stmts, ports)

\* Mutant: the frame of a MetaTabular plan is not described.
query_plan_to_row_description_no_frame(plan) ==
    CASE plan.kind \in {"MetaOk", "MetaTabular"} -> [ok |-> TRUE, fields |-> <<>>]
      [] OTHER ->
            IF \E i \in DOMAIN plan.cols : df_type_to_pg_tid(plan.cols[i].dtype) = ""
            THEN [ok |-> FALSE, fields |-> <<>>]
            ELSE [ok |-> TRUE,
                  fields |-> [i \in DOMAIN plan.cols |->
                                RowDescriptionField(plan.cols[i].name,
                                    df_type_to_pg_tid(plan.cols[i].dtype))]]

query_plan_to_row_description(plan) ==
    CASE plan.kind = "MetaOk" -> [ok |-> TRUE, fields |-> <<>>]
      [] plan.kind = "MetaTabular" ->
            [ok |-> TRUE,
             fields |-> [i \in DOMAIN plan.cols |->
                            RowDescriptionField(plan.cols[i].name, "TEXT")]]
      [] OTHER ->
            IF \E i \in DOMAIN plan.cols : df_type_to_pg_tid(plan.cols[i].dtype) = ""
            THEN [ok |-> FALSE, fields |-> <<>>]
            ELSE [ok |-> TRUE,
                  fields |-> [i \in DOMAIN plan.cols |->
                                RowDescriptionField(plan.cols[i].name,
                                    df_type_to_pg_tid(plan.cols[i].dtype))]]

\* Mutant: the last result format instead of the first.
last_or_text(result_formats) ==
    IF result_formats = <<>> THEN "Text" ELSE result_formats[Len(result_formats)]

first_or_text(result_formats) ==
    IF result_formats = <<>> THEN "Text" ELSE Head(result_formats)

\* bind once the source statement is found (lines 372-406).
bind_found(stmts, ports, portal, statement, result_formats, meta) ==
    IF ~stmts[statement].some
        THEN Result("ok", "", <<BindComplete>>, stmts,
                    insert(ports, portal, NonePortal))
    ELSE IF meta = "must be auth"
        THEN Result("err", "must be auth", <<>>, stmts, ports)
    ELSE IF meta = "fail" THEN Result("panic", "meta", <<>>, stmts, ports)
    ELSE LET prepared_statement == PreparedStatement_bind(stmts[statement])
             c == convert_statement_to_cube_query(prepared_statement, meta)
             d == query_plan_to_row_description(c.plan)
             description == IF Len(d.fields) > 0 THEN SomeDescription(d.fields)
                            ELSE NoDescription
             format == first_or_text(result_formats)
         IN  IF ~c.ok THEN Result("err", "planner", <<>>, stmts, ports)
             ELSE IF ~d.ok THEN Result("err", "type mapping", <<>>, stmts, ports)
             ELSE Creating(Result("ok", "", <<BindComplete>>, stmts,
                                  insert(ports, portal,
                                         SomePortal(Portal_new(c.plan, format,
                                                               description)))),
                           Portal_new(c.plan, format, description))

\* Mutant: an unknown source statement is bound like an empty one.
bind_unknown_as_empty(stmts, ports, portal, statement, result_formats, meta) ==
    IF statement \notin DOMAIN stmts
    THEN Result("ok", "", <<BindComplete>>, stmts, insert(ports, portal, NonePortal))
    ELSE bind_found(stmts, ports, portal, statement, result_formats, meta)

bind(stmts, ports, portal, statement, result_formats, meta) ==
    IF statement \notin DOMAIN stmts
    THEN Result("err", "Unknown statement", <<>>, stmts, ports)
    ELSE bind_found(stmts, ports, portal, statement, result_formats, meta)

\* Mutant: the placeholders are looked for after they were replaced.
parameters_of_replaced(ast) ==
    [i \in DOMAIN StatementParamsFinder_find(StatementPlaceholderReplacer_replace(ast))
        |-> "TEXT"]

\* The parameter types of a parsed statement (lines 449-454).
parse_parameters(ast) == [i \in DOMAIN StatementParamsFinder_find(ast) |-> "TEXT"]

parse(stmts, ports, name, query, meta) ==
    IF trim(query) = <<>>
    THEN Result("ok", "", <<ParseComplete>>, insert(stmts, name, NoneStatement), ports)
    ELSE LET p == parse_sql_to_statement(query)
             parameters == parse_parameters(p.ast)
             hacked_query == StatementPlaceholderReplacer_replace(p.ast)
             c == convert_statement_to_cube_query(hacked_query, meta)
             d == query_plan_to_row_description(c.plan)
             description == IF Len(d.fields) > 0 THEN SomeDescription(d.fields)
                            ELSE NoDescription
         IN  IF ~p.ok THEN Result("err", "sql parser", <<>>, stmts, ports)
             ELSE IF meta = "must be auth"
                 THEN Result("err", "must be auth", <<>>, stmts, ports)
             ELSE IF meta = "fail" THEN Result("panic", "meta", <<>>, stmts, ports)
             ELSE IF ~c.ok THEN Result("err", "planner", <<>>, stmts, ports)
             ELSE IF ~d.ok THEN Result("err", "type mapping", <<>>, stmts, ports)
             ELSE Result("ok", "", <<ParseComplete>>,
                         insert(stmts, name,
                                SomeStatement(p.ast, ParameterDescription(parameters),
                                              description)),
                         ports)

\* Mutant: the completion message is written before the rows.
execute_query_completion_first(query, meta, exec_ok) ==
    IF meta = "must be auth"
    THEN [ok |-> FALSE, err |-> "must be auth", out |-> <<>>, created |-> NonePortal]
    ELSE IF meta = "fail"
        THEN [ok |-> FALSE, err |-> "meta", out |-> <<>>, created |-> NonePortal]
    ELSE LET c == convert_sql_to_cube_query(query, meta)
             d == query_plan_to_row_description(c.plan)
             head == IF Len(d.fields) = 0 THEN <<NoData>>
                     ELSE <<RowDescription(d.fields)>>
             portal == Portal_new(c.plan, "Text", NoDescription)
             e == Portal_execute(portal, 0, exec_ok)
         IN  IF ~c.ok
                 THEN [ok |-> FALSE, err |-> "planner", out |-> <<>>,
                       created |-> NonePortal]
             ELSE IF ~d.ok
                 THEN [ok |-> FALSE, err |-> "type mapping", out |-> <<>>,
                       created |-> NonePortal]
             ELSE IF ~e.ok
                 THEN [ok |-> FALSE, err |-> "portal execute", out |-> head,
                       created |-> SomePortal(portal)]
             ELSE [ok |-> TRUE, err |-> "", out |-> head \o <<e.completion>> \o e.rows,
                   created |-> SomePortal(portal)]

\* execute_query: [ok, err, out, created]; a failure keeps what was written
\* before it.
execute_query(query, meta, exec_ok) ==
    IF meta = "must be auth"
    THEN [ok |-> FALSE, err |-> "must be auth", out |-> <<>>, created |-> NonePortal]
    ELSE IF meta = "fail"
        THEN [ok |-> FALSE, err |-> "meta", out |-> <<>>, created |-> NonePortal]
    ELSE LET c == convert_sql_to_cube_query(query, meta)
             d == query_plan_to_row_description(c.plan)
             head == IF Len(d.fields) = 0 THEN <<NoData>>
                     ELSE <<RowDescription(d.fields)>>
             portal == Portal_new(c.plan, "Text", NoDescription)
             e == Portal_execute(portal, 0, exec_ok)
         IN  IF ~c.ok
                 THEN [ok |-> FALSE, err |-> "planner", out |-> <<>>,
                       created |-> NonePortal]
             ELSE IF ~d.ok
                 THEN [ok |-> FALSE, err |-> "type mapping", out |-> <<>>,
                       created |-> NonePortal]
             ELSE IF ~e.ok
                 THEN [ok |-> FALSE, err |-> "portal execute", out |-> head,
                       created |-> SomePortal(portal)]
             ELSE [ok |-> TRUE, err |-> "", out |-> head \o e.rows \o <<e.completion>>,
                   created |-> SomePortal(portal)]

\* Mutant: a failed query is returned to the dispatch loop with ?.
process_query_propagate(stmts, ports, query, meta, exec_ok) ==
    LET r == execute_query(query, meta, exec_ok)
    IN  [(IF r.ok THEN Result("ok", "", r.out \o <<ReadyForQuery>>, stmts, ports)
          ELSE Result("err", r.err, r.out, stmts, ports))
            EXCEPT !.created = r.created]

process_query(stmts, ports, query, meta, exec_ok) ==
    LET r == execute_query(query, meta, exec_ok)
    IN  [Result("ok", r.err,
                r.out \o (IF r.ok THEN <<>>
                          ELSE <<ErrorResponse("Error", "InternalError", r.err)>>)
                      \o <<ReadyForQuery>>,
                stmts, ports)
            EXCEPT !.created = r.created]

\* ------------------------------------------------- startup, auth, teardown
SSL_REQUEST_PROTOCOL == 1234

Versions ==
    { <<SSL_REQUEST_PROTOCOL, 5679>>, <<SSL_REQUEST_PROTOCOL, 0>>,
      <<3, 0>>, <<3, 1>>, <<2, 0>> }

\* The parameters of a startup packet: any of user and database.
StartupParameters ==
    { [k \in ks |-> IF k = "user" THEN "u" ELSE "d"] : ks \in SUBSET {"user", "database"} }

\* What the auth provider answers: an Err, or a context with an optional
\* expected password.
NoPassword == [some |-> FALSE, value |-> ""]
AuthResponses ==
    { [ok |-> FALSE, context |-> "", password |-> NoPassword],
      [ok |-> TRUE, context |-> "ctx", password |-> NoPassword],
      [ok |-> TRUE, context |-> "ctx", password |-> [some |-> TRUE, value |-> "right"]] }
Passwords == {"right", "wrong"}

NoAuthContext == [some |-> FALSE, context |-> ""]

\* Mutant: the user parameter is looked for before the version is checked.
process_startup_message_user_first(version, params) ==
    IF version[1] = SSL_REQUEST_PROTOCOL
    THEN [state |-> "SslRequested", parameters |-> EmptyMap, out |-> <<SSLResponse>>]
    ELSE IF "user" \notin DOMAIN params
        THEN [state |-> "Denied", parameters |-> EmptyMap,
              out |-> <<ErrorResponse("Fatal", "InvalidAuthorizationSpecification",
                                      "no PostgreSQL user name specified in startup packet")>>]
    ELSE IF version[1] # 3 \/ version[2] # 0
        THEN [state |-> "Denied", parameters |-> EmptyMap,
              out |-> <<ErrorResponse("Fatal", "FeatureNotSupported",
                                      "unsupported frontend protocol")>>]
    ELSE [state |-> "Success",
          parameters |-> IF "database" \in DOMAIN params THEN params
                         ELSE insert(params, "database", "db"),
          out |-> <<Authentication("CleartextPassword")>>]

process_startup_message(version, params) ==
    IF version[1] = SSL_REQUEST_PROTOCOL
    THEN [state |-> "SslRequested", parameters |-> EmptyMap, out |-> <<SSLResponse>>]
    ELSE IF version[1] # 3 \/ version[2] # 0
        THEN [state |-> "Denied", parameters |-> EmptyMap,
              out |-> <<ErrorResponse("Fatal", "FeatureNotSupported",
                                      "unsupported frontend protocol")>>]
    ELSE IF "user" \notin DOMAIN params
        THEN [state |-> "Denied", parameters |-> EmptyMap,
              out |-> <<ErrorResponse("Fatal", "InvalidAuthorizationSpecification",
                                      "no PostgreSQL user name specified in startup packet")>>]
    ELSE [state |-> "Success",
          parameters |-> IF "database" \in DOMAIN params THEN params
                         ELSE insert(params, "database", "db"),
          out |-> <<Authentication("CleartextPassword")>>]

\* authenticate: [success, user, auth_context, out]; user and auth_context are
\* what the session holds afterwards.
\* Mutant: a successful authentication stores the user, not the context.
authenticate_without_context(password, params, response, old_user, old_ctx) ==
    LET auth_success ==
            /\ response.ok
            /\ (response.password.some => response.password.value = password)
    IN  IF ~auth_success
        THEN [success |-> FALSE, user |-> old_user, auth_context |-> old_ctx,
              out |-> <<ErrorResponse("Fatal", "InvalidPassword",
                                      "password authentication failed for user")>>]
        ELSE [success |-> TRUE, user |-> params["user"], auth_context |-> old_ctx,
              out |-> <<Authentication("Ok")>>]

\* Mutant: the provider's context is stored before the password is compared.
authenticate_stores_first(password, params, response, old_user, old_ctx) ==
    LET auth_success ==
            /\ response.ok
            /\ (response.password.some => response.password.value = password)
        ctx == IF response.ok THEN [some |-> TRUE, context |-> response.context]
               ELSE old_ctx
    IN  IF ~auth_success
        THEN [success |-> FALSE, user |-> old_user, auth_context |-> ctx,
              out |-> <<ErrorResponse("Fatal", "InvalidPassword",
                                      "password authentication failed for user")>>]
        ELSE [success |-> TRUE, user |-> params["user"], auth_context |-> ctx,
              out |-> <<Authentication("Ok")>>]

authenticate(password, params, response, old_user, old_ctx) ==
    LET auth_success ==
            /\ response.ok
            /\ (response.password.some => response.password.value = password)
    IN  IF ~auth_success
        THEN [success |-> FALSE, user |-> old_user, auth_context |-> old_ctx,
              out |-> <<ErrorResponse("Fatal", "InvalidPassword",
                                      "password authentication failed for user")>>]
        ELSE [success |-> TRUE, user |-> params["user"],
              auth_context |-> [some |-> TRUE, context |-> response.context],
              out |-> <<Authentication("Ok")>>]

ready ==
    << ParameterStatus("server_version", "14.2 (Cube SQL)"),
       ParameterStatus("server_encoding", "UTF8"),
       ParameterStatus("client_encoding", "UTF8"),
       ParameterStatus("DateStyle", "ISO"),
       ReadyForQuery >>

\* Mutant: every EOF is a benign disconnect.
run_on_eof_is_ok(run_result, ctx, shutdown_ok) ==
    IF run_result # "Ok"
    THEN [result |-> IF run_result = "UnexpectedEof" THEN "Ok" ELSE run_result,
          shutdown |-> FALSE]
    ELSE [result |-> IF shutdown_ok THEN "Ok" ELSE "ShutdownError", shutdown |-> TRUE]

\* run_on once run() has returned run_result ("Ok", or the kind of its Err):
\* the value run_on returns and whether it called socket.shutdown().
run_on(run_result, ctx, shutdown_ok) ==
    IF run_result # "Ok"
    THEN [result |-> IF run_result = "UnexpectedEof" /\ ~ctx.some
                     THEN "Ok" ELSE run_result,
          shutdown |-> FALSE]
    ELSE [result |-> IF shutdown_ok THEN "Ok" ELSE "ShutdownError", shutdown |-> TRUE]

\* Drop for AsyncPostgresShim: the drop_session calls made when the shim goes
\* out of scope.
drop(n) == n + 1

\* The dispatch loop's reply to a handler result: what the handler wrote, then
\* an ErrorResponse if it returned an Err.
run_reply(r) ==
    r.out \o (IF r.res = "err"
              THEN <<ErrorResponse("Error", "InternalError", r.err)>> ELSE <<>>)

\* ------------------------------------------------------------------- state
VARIABLES
    pc,             \* where run() is: "startup", "startup_ssl", "password", "loop", "done"
    statements,     \* shim.statements
    portals,        \* shim.portals
    user,           \* session.state user
    auth_context,   \* session.state auth_context
    parameters,     \* initial_parameters of run(), moved into authenticate
    parsedWith,     \* per statement name, the text its Parse got and the metadata
                    \* the transport gave that Parse ("none": not asked)
    boundFrom,      \* per portal name bound and not closed, the statement name
                    \* its Bind named
    lastMsg,        \* the packet read last
    lastAuth,       \* what the auth provider answered to it
    lastRes,        \* how its handler ended: "ok", "err", "panic"
    lastErr,        \* the failure met while serving it, "" if none
    lastOut,        \* the messages written in reply to it
    lastPortal,     \* the Portal made with Portal::new while serving it
    result,         \* what run_on returned, "running" before
    shutdown,       \* socket.shutdown() was called
    dropped         \* calls of session_manager.drop_session

vars == <<pc, statements, portals, user, auth_context, parameters, parsedWith,
          boundFrom,
          lastMsg, lastAuth, lastRes, lastErr, lastOut, lastPortal,
          result, shutdown, dropped>>

catalogs == <<statements, portals, parsedWith, boundFrom>>
session == <<user, auth_context>>
last == <<lastMsg, lastAuth, lastRes, lastErr, lastOut, lastPortal>>

NoVersion == <<0, 0>>
FrontendMessage(typ, kind, name, statement, query, result_formats, max_rows) ==
    [typ |-> typ, kind |-> kind, name |-> name, statement |-> statement,
     query |-> query, result_formats |-> result_formats, max_rows |-> max_rows,
     version |-> NoVersion, parameters |-> EmptyMap, password |-> ""]
NoMessage == FrontendMessage("none", "", "", "", <<>>, <<>>, 0)
StartupMessage(version, params) ==
    [NoMessage EXCEPT !.typ = "Startup", !.version = version, !.parameters = params]
PasswordMessage(password) ==
    [NoMessage EXCEPT !.typ = "PasswordMessage", !.password = password]
NoAuthResponse == [ok |-> FALSE, context |-> "none", password |-> NoPassword]

Init ==
    /\ pc = "startup"
    /\ statements = EmptyMap
    /\ portals = EmptyMap
    /\ user = ""
    /\ auth_context = NoAuthContext
    /\ parameters = EmptyMap
    /\ parsedWith = EmptyMap
    /\ boundFrom = EmptyMap
    /\ lastMsg = NoMessage
    /\ lastAuth = NoAuthResponse
    /\ lastRes = "none"
    /\ lastErr = ""
    /\ lastOut = <<>>
    /\ lastPortal = NonePortal
    /\ result = "running"
    /\ shutdown = FALSE
    /\ dropped = 0

\* Mutant: the shim is not dropped when socket.shutdown() fails.
Return_leaks_on_shutdown_error(run_result, shutdown_ok) ==
    LET r == run_on(run_result, auth_context, shutdown_ok)
    IN  /\ pc' = "done"
        /\ result' = r.result
        /\ shutdown' = r.shutdown
        /\ dropped' = IF r.result = "ShutdownError" THEN dropped ELSE drop(dropped)
        /\ statements' = EmptyMap
        /\ portals' = EmptyMap
        /\ parsedWith' = EmptyMap
        /\ boundFrom' = EmptyMap

\* run() returns run_result: run_on finishes and the shim, with its catalogs,
\* is dropped.
Return(run_result, shutdown_ok) ==
    LET r == run_on(run_result, auth_context, shutdown_ok)
    IN  /\ pc' = "done"
        /\ result' = r.result
        /\ shutdown' = r.shutdown
        /\ dropped' = drop(dropped)
        /\ statements' = EmptyMap
        /\ portals' = EmptyMap
        /\ parsedWith' = EmptyMap
        /\ boundFrom' = EmptyMap

\* What the step that read msg leaves in the record of the last packet.
Last(msg, auth, res, err, out) ==
    /\ lastMsg' = msg
    /\ lastAuth' = auth
    /\ lastRes' = res
    /\ lastErr' = err
    /\ lastOut' = out
    /\ lastPortal' = NonePortal

\* What the dispatch loop's step that served msg with the result r leaves.
Served(msg, r, out) ==
    /\ lastMsg' = msg
    /\ lastAuth' = NoAuthResponse
    /\ lastRes' = r.res
    /\ lastErr' = r.err
    /\ lastOut' = out
    /\ lastPortal' = r.created

\* The first startup packet (run, lines 68-75).
Startup ==
    /\ pc = "startup"
    /\ \E version \in Versions, params \in StartupParameters, shutdown_ok \in BOOLEAN :
        LET s == process_startup_message(version, params)
        IN  /\ Last(StartupMessage(version, params), NoAuthResponse, "none", "", s.out)
            /\ parameters' = s.parameters
            /\ IF s.state = "Denied" THEN Return("Ok", shutdown_ok)
               ELSE /\ pc' = IF s.state = "Success" THEN "password" ELSE "startup_ssl"
                    /\ UNCHANGED <<catalogs, result, shutdown, dropped>>
    /\ UNCHANGED session

\* The startup packet after an SSL request (run, lines 70-73).
StartupAfterSsl ==
    /\ pc = "startup_ssl"
    /\ \E version \in Versions, params \in StartupParameters, shutdown_ok \in BOOLEAN :
        LET s == process_startup_message(version, params)
        IN  /\ Last(StartupMessage(version, params), NoAuthResponse, "none", "", s.out)
            /\ parameters' = s.parameters
            /\ IF s.state # "Success" THEN Return("Ok", shutdown_ok)
               ELSE /\ pc' = "password"
                    /\ UNCHANGED <<catalogs, result, shutdown, dropped>>
    /\ UNCHANGED session

\* A PasswordMessage after startup (run, lines 77-89): authenticate, ready.
Password ==
    /\ pc = "password"
    /\ \E password \in Passwords, response \in AuthResponses, shutdown_ok \in BOOLEAN :
        LET a == authenticate(password, parameters, response, user, auth_context)
        IN  /\ user' = a.user
            /\ auth_context' = a.auth_context
            /\ parameters' = EmptyMap
            /\ IF a.success
               THEN /\ Last(PasswordMessage(password), response, "none", "",
                            a.out \o ready)
                    /\ pc' = "loop"
                    /\ UNCHANGED <<catalogs, result, shutdown, dropped>>
               ELSE /\ Last(PasswordMessage(password), response, "none", "", a.out)
                    /\ Return("Ok", shutdown_ok)

\* Any other message where the PasswordMessage is due (run, line 86).
NotPassword ==
    /\ pc = "password"
    /\ \E shutdown_ok \in BOOLEAN : Return("Ok", shutdown_ok)
    /\ Last([NoMessage EXCEPT !.typ = "Sync"], NoAuthResponse, "none", "", <<>>)
    /\ parameters' = EmptyMap
    /\ UNCHANGED session

\* A read of the socket fails (the ? of lines 68, 70, 77, 92).
ReadError ==
    /\ pc # "done"
    /\ \E kind \in {"UnexpectedEof", "IoError"} :
        /\ Return(kind, TRUE)
        /\ Last([NoMessage EXCEPT !.typ = "ReadError", !.kind = kind],
                NoAuthResponse, "none", "", <<>>)
    /\ parameters' = EmptyMap
    /\ UNCHANGED session

\* The statement names of the portals bound and not closed, after msg was
\* served with the result r.
Bound(bound, msg, r) ==
    IF msg.typ = "Bind" /\ r.res = "ok" THEN insert(bound, msg.name, msg.statement)
    ELSE IF msg.typ = "Close" /\ msg.kind = "Portal" THEN remove(bound, msg.name)
    ELSE bound

\* Mutant: a handler's Err logs the session out.
Serve_logs_out_on_err(msg, r, pw) ==
    /\ pc = "loop"
    /\ IF r.res = "panic"
       THEN /\ Served(msg, r, r.out)
            /\ pc' = "done"
            /\ result' = "panic"
            /\ dropped' = drop(dropped)
            /\ statements' = EmptyMap
            /\ portals' = EmptyMap
            /\ parsedWith' = EmptyMap
            /\ boundFrom' = EmptyMap
       ELSE /\ Served(msg, r, run_reply(r))
            /\ statements' = r.statements
            /\ portals' = r.portals
            /\ parsedWith' = pw
            /\ boundFrom' = Bound(boundFrom, msg, r)
            /\ UNCHANGED <<pc, result, dropped>>
    /\ user' = user
    /\ auth_context' = IF r.res = "err" THEN NoAuthContext ELSE auth_context
    /\ UNCHANGED <<parameters, shutdown>>

\* The dispatch loop serves msg (run, lines 92-115); r is its handler's result
\* and pw the metadata record of the statements after it.
Serve(msg, r, pw) ==
    /\ pc = "loop"
    /\ IF r.res = "panic"
       THEN /\ Served(msg, r, r.out)
            /\ pc' = "done"
            /\ result' = "panic"
            /\ dropped' = drop(dropped)
            /\ statements' = EmptyMap
            /\ portals' = EmptyMap
            /\ parsedWith' = EmptyMap
            /\ boundFrom' = EmptyMap
       ELSE /\ Served(msg, r, run_reply(r))
            /\ statements' = r.statements
            /\ portals' = r.portals
            /\ parsedWith' = pw
            /\ boundFrom' = Bound(boundFrom, msg, r)
            /\ UNCHANGED <<pc, result, dropped>>
    /\ UNCHANGED <<session, parameters, shutdown>>

Query(U) ==
    \E query \in U.sqls, env \in QueryEnvs(U.metas) :
        Serve(FrontendMessage("Query", "", "", "", query, <<>>, 0),
              process_query(statements, portals, query,
                            transport_meta(auth_context, env[1]), env[2]),
              parsedWith)

Parse(U) ==
    \E name \in U.names, query \in U.sqls, meta \in U.metas :
        LET r == parse(statements, portals, name, query,
                       transport_meta(auth_context, meta))
        IN  Serve(FrontendMessage("Parse", "", name, "", query, <<>>, 0), r,
                  IF r.res # "ok" THEN parsedWith
                  ELSE insert(parsedWith, name,
                              [query |-> query,
                               meta |-> IF r.statements[name].some THEN meta
                                        ELSE "none"]))

Bind(U) ==
    \E portal \in U.names, statement \in U.names,
       result_formats \in U.formats, meta \in U.metas :
        Serve(FrontendMessage("Bind", "", portal, statement, <<>>, result_formats, 0),
              bind(statements, portals, portal, statement, result_formats,
                   transport_meta(auth_context, meta)),
              parsedWith)

Execute(U) ==
    \E portal \in U.names, max_rows \in 0..MaxRows, exec_ok \in BOOLEAN :
        Serve(FrontendMessage("Execute", "", portal, "", <<>>, <<>>, max_rows),
              execute(statements, portals, portal, max_rows, exec_ok),
              parsedWith)

Describe(U) ==
    \E typ \in {"Statement", "Portal"}, name \in U.names :
        Serve(FrontendMessage("Describe", typ, name, "", <<>>, <<>>, 0),
              describe(statements, portals, typ, name),
              parsedWith)

Close(U) ==
    \E typ \in {"Statement", "Portal"}, name \in U.names :
        Serve(FrontendMessage("Close", typ, name, "", <<>>, <<>>, 0),
              close(statements, portals, typ, name),
              IF typ = "Statement" THEN remove(parsedWith, name) ELSE parsedWith)

Sync ==
    Serve(FrontendMessage("Sync", "", "", "", <<>>, <<>>, 0),
          sync(statements, portals), parsedWith)

\* Terminate (run, line 100): run returns Ok without a reply.
Terminate ==
    /\ pc = "loop"
    /\ \E shutdown_ok \in BOOLEAN : Return("Ok", shutdown_ok)
    /\ Last([NoMessage EXCEPT !.typ = "Terminate"], NoAuthResponse, "none", "", <<>>)
    /\ UNCHANGED <<session, parameters>>

\* Mutant: any other frontend message is answered with an ErrorResponse and
\* the loop goes on.
Unsupported_is_recoverable ==
    /\ pc = "loop"
    /\ Last(PasswordMessage("right"), NoAuthResponse, "none", "",
            <<ErrorResponse("Error", "InternalError", "Unsupported operation")>>)
    /\ UNCHANGED <<pc, catalogs, session, parameters, result, shutdown, dropped>>

\* Any other frontend message (run, lines 101-106): run returns an Err.
Unsupported ==
    /\ pc = "loop"
    /\ Return("Unsupported", TRUE)
    /\ Last(PasswordMessage("right"), NoAuthResponse, "none", "", <<>>)
    /\ UNCHANGED <<session, parameters>>

Next(U) ==
    \/ Startup
    \/ StartupAfterSsl
    \/ Password
    \/ NotPassword
    \/ ReadError
    \/ Query(U)
    \/ Parse(U)
    \/ Bind(U)
    \/ Execute(U)
    \/ Describe(U)
    \/ Close(U)
    \/ Sync
    \/ Terminate
    \/ Unsupported

NextOneName == Next(OneName)

\* One connection of a client that uses the unnamed statement and portal.
Spec == Init /\ [][NextOneName]_vars

NextTwoNames == Next(TwoNames)

\* One connection of a client that uses two statement and portal names.
SpecNames == Init /\ [][NextTwoNames]_vars

\* ------------------------------------------------------------------ claims
\* The indices of the messages of out that carry tag.
Tagged(out, tag) == {i \in DOMAIN out : out[i].tag = tag}

\* The packet read last was read by the dispatch loop.
InLoop(typ) == lastRes # "none" /\ lastMsg.typ = typ

IsErrorOfSeverityError(m) == m.tag = "ErrorResponse" /\ m.args[1] = "Error"

ExtendedTypes == {"Parse", "Bind", "Describe", "Execute", "Close"}

\* A text of blanks only: what trims to the empty string.
IsBlank(q) == \A i \in DOMAIN q : q[i] = " "

\* C1: every Query, whether execute_query succeeded or failed, and every Sync
\* is answered with exactly one ReadyForQuery(Idle), which is the last message
\* written for it; for a failed Query it directly follows the ErrorResponse.
C1_ReadyForQueryEndsQueryAndSync ==
    (InLoop("Query") \/ InLoop("Sync")) =>
        /\ pc = "loop"
        /\ Cardinality(Tagged(lastOut, "ReadyForQuery")) = 1
        /\ lastOut[Len(lastOut)] = ReadyForQuery
        /\ (lastErr # "") =>
              /\ Len(lastOut) >= 2
              /\ IsErrorOfSeverityError(lastOut[Len(lastOut) - 1])
        /\ (lastErr = "") => Tagged(lastOut, "ErrorResponse") = {}

\* A Query whose plan failed to run after its RowDescription was written.
C1_Witness ==
    /\ InLoop("Query")
    /\ lastErr = "portal execute"
    /\ Len(lastOut) = 3
    /\ lastOut[1].tag = "RowDescription"

\* C2 as claimed: no Parse, Bind, Describe, Execute or Close makes the server
\* write a ReadyForQuery.
C2_NoReadyInExtendedPath ==
    (lastRes # "none" /\ lastMsg.typ \in ExtendedTypes) =>
        Tagged(lastOut, "ReadyForQuery") = {}

\* C2 as amended: no Parse, Bind, Describe or Close, and no Execute of a
\* portal name that is in the portal catalog, makes the server write a
\* ReadyForQuery; an Execute of an unknown portal name writes one.
C2_NoReadyInExtendedPathButUnknownPortal ==
    (lastRes # "none" /\ lastMsg.typ \in ExtendedTypes) =>
        IF lastMsg.typ = "Execute" /\ pc = "loop" /\ lastMsg.name \notin DOMAIN portals
        THEN lastOut = <<ReadyForQuery>>
        ELSE Tagged(lastOut, "ReadyForQuery") = {}

\* An Execute that ran a portal to completion.
C2_Witness ==
    /\ InLoop("Execute")
    /\ lastMsg.name \in DOMAIN portals
    /\ Tagged(lastOut, "DataRow") # {}
    /\ lastOut[Len(lastOut)].tag = "CommandComplete"

\* C3: whenever a Query, Parse, Bind, Execute, Describe or Close handler fails,
\* the next message written is an ErrorResponse of severity Error, the
\* connection is not closed and the dispatch loop goes on.
C3_HandlerFailureIsAnErrorResponse ==
    (lastRes # "none" /\ lastErr # "") =>
        /\ pc = "loop"
        /\ result = "running"
        /\ LET k == IF lastMsg.typ = "Query" THEN Len(lastOut) - 1 ELSE Len(lastOut)
           IN  k >= 1 /\ IsErrorOfSeverityError(lastOut[k])

\* C4: after a successful Parse(name, sql) the statement catalog maps name to
\* the entry of this Parse: the empty-query sentinel iff sql trims to the empty
\* text, otherwise the parsed statement with one TEXT parameter per placeholder.
C4_ParseStoresItsStatement ==
    (InLoop("Parse") /\ lastRes = "ok") =>
        /\ lastOut = <<ParseComplete>>
        /\ lastMsg.name \in DOMAIN statements
        /\ LET e == statements[lastMsg.name]
               q == lastMsg.query
               tokens == {i \in DOMAIN q : q[i] # " "}
               holes == {i \in DOMAIN q : q[i] = "$"}
           IN  /\ ~e.some <=> IsBlank(q)
               /\ ~e.some => e = NoneStatement
               /\ e.some =>
                    /\ Len(e.query) = Cardinality(tokens)
                    /\ \A i \in tokens :
                          e.query[Cardinality({j \in tokens : j <= i})] = q[i]
                    /\ e.parameters.tag = "ParameterDescription"
                    /\ Len(e.parameters.args) = Cardinality(holes)
                    /\ \A i \in DOMAIN e.parameters.args : e.parameters.args[i] = "TEXT"

\* A Parse that stored a statement with a placeholder.
C4_Witness ==
    /\ InLoop("Parse")
    /\ lastRes = "ok"
    /\ statements[lastMsg.name].some
    /\ Len(statements[lastMsg.name].parameters.args) = MaxParams

\* C5: after a successful Bind the destination name is in the portal catalog
\* with a fresh entry: the sentinel iff the source statement is the sentinel,
\* otherwise a portal whose format is the first result format, or Text.
C5_BindStoresItsPortal ==
    (InLoop("Bind") /\ lastRes = "ok") =>
        /\ lastOut = <<BindComplete>>
        /\ lastMsg.name \in DOMAIN portals
        /\ lastMsg.statement \in DOMAIN statements
        /\ LET e == portals[lastMsg.name]
               f == lastMsg.result_formats
           IN  /\ ~e.some <=> ~statements[lastMsg.statement].some
               /\ ~e.some => e = NonePortal
               /\ e.some =>
                    /\ e.format = IF Len(f) = 0 THEN "Text" ELSE f[1]
                    /\ e.pos = 0

\* A Bind with two result formats, the first Binary.
C5_Witness ==
    /\ InLoop("Bind")
    /\ lastRes = "ok"
    /\ portals[lastMsg.name].some
    /\ Len(lastMsg.result_formats) = 2
    /\ portals[lastMsg.name].format = "Binary"

\* The dispatch loop reads a message of type typ in this step.
Reads(typ) == pc = "loop" /\ lastMsg'.typ = typ

\* C6: a Bind whose source statement is not in the statement catalog fails
\* with "Unknown statement": an ErrorResponse and no BindComplete are written
\* and both catalogs, the destination portal included, stay as they are.
C6_BindOfUnknownStatement ==
    [][ (Reads("Bind") /\ lastMsg'.statement \notin DOMAIN statements) =>
            /\ lastRes' = "err"
            /\ lastOut' = <<ErrorResponse("Error", "InternalError", "Unknown statement")>>
            /\ pc' = "loop"
            /\ statements' = statements
            /\ portals' = portals ]_vars

\* A failed Bind with a portal stored under its destination name.
C6_Witness ==
    /\ InLoop("Bind")
    /\ lastErr = "Unknown statement"
    /\ lastMsg.name \in DOMAIN portals
    /\ portals[lastMsg.name].some

\* C7: after Close(kind, name) the name is not in the catalog of that kind,
\* the rest of both catalogs is as before, and the reply is one CloseComplete
\* and no error, whether or not the name was there: a second Close of the same
\* name changes nothing and is answered the same.
C7_CloseRemovesAndCompletes ==
    [][ Reads("Close") =>
            /\ lastRes' = "ok"
            /\ lastOut' = <<CloseComplete>>
            /\ pc' = "loop"
            /\ IF lastMsg'.kind = "Statement"
               THEN /\ DOMAIN statements' = DOMAIN statements \ {lastMsg'.name}
                    /\ \A n \in DOMAIN statements' : statements'[n] = statements[n]
                    /\ portals' = portals
               ELSE /\ DOMAIN portals' = DOMAIN portals \ {lastMsg'.name}
                    /\ \A n \in DOMAIN portals' : portals'[n] = portals[n]
                    /\ statements' = statements ]_vars

\* A Close of a statement that left a portal bound from it behind.
C7_Witness ==
    /\ InLoop("Close")
    /\ lastMsg.kind = "Statement"
    /\ lastOut = <<CloseComplete>>
    /\ lastMsg.name \notin DOMAIN statements
    /\ \E p \in DOMAIN portals : portals[p].some

\* C8: along Parse(n, blank text); Describe(Statement, n); Bind(p, n);
\* Execute(p): Parse stores the empty-query sentinel, Describe writes an empty
\* ParameterDescription and NoData, Bind stores the empty-portal sentinel
\* whatever the transport would answer, and Execute writes one
\* EmptyQueryResponse and nothing else.
C8_EmptyQueryChain ==
    [][ /\ (Reads("Parse") /\ IsBlank(lastMsg'.query)) =>
            /\ lastOut' = <<ParseComplete>>
            /\ statements'[lastMsg'.name] = NoneStatement
        /\ ( /\ Reads("Describe")
             /\ lastMsg'.kind = "Statement"
             /\ lastMsg'.name \in DOMAIN statements
             /\ ~statements[lastMsg'.name].some ) =>
            lastOut' = <<ParameterDescription(<<>>), NoData>>
        /\ ( /\ Reads("Bind")
             /\ lastMsg'.statement \in DOMAIN statements
             /\ ~statements[lastMsg'.statement].some ) =>
            /\ lastOut' = <<BindComplete>>
            /\ portals'[lastMsg'.name] = NonePortal
        /\ ( /\ Reads("Execute")
             /\ lastMsg'.name \in DOMAIN portals
             /\ ~portals[lastMsg'.name].some ) =>
            /\ lastOut' = <<EmptyQueryResponse>>
            /\ portals' = portals ]_vars

\* The end of the chain: an Execute of a portal bound from an empty statement.
C8_Witness ==
    /\ InLoop("Execute")
    /\ lastOut = <<EmptyQueryResponse>>
    /\ lastMsg.name \in DOMAIN portals
    /\ ~portals[lastMsg.name].some
    /\ \E n \in DOMAIN statements : ~statements[n].some

\* C9: Describe(Portal, name) writes exactly one message: the InvalidCursorName
\* ErrorResponse when name is not in the portal catalog, NoData for the
\* sentinel or a portal without row description, else the stored
\* RowDescription; the loop goes on and the catalogs stay as they are.
C9_DescribePortal ==
    [][ (Reads("Describe") /\ lastMsg'.kind = "Portal") =>
            /\ pc' = "loop"
            /\ statements' = statements
            /\ portals' = portals
            /\ Len(lastOut') = 1
            /\ IF lastMsg'.name \notin DOMAIN portals
               THEN lastOut'[1] =
                        ErrorResponse("Error", "InvalidCursorName", "missing cursor")
               ELSE IF ~portals[lastMsg'.name].some
                       \/ ~portals[lastMsg'.name].description.some
               THEN lastOut'[1] = NoData
               ELSE /\ lastOut'[1].tag = "RowDescription"
                    /\ lastOut'[1].cols = portals[lastMsg'.name].description.fields
                    /\ lastOut'[1].cols # <<>> ]_vars

\* A Describe of a portal that has a row description.
C9_Witness ==
    /\ InLoop("Describe")
    /\ lastMsg.kind = "Portal"
    /\ Len(lastOut) = 1
    /\ lastOut[1].tag = "RowDescription"

\* What Describe(Statement, name) is to write for a catalog entry.
Described(e) ==
    << e.parameters,
       IF e.description.some THEN RowDescription(e.description.fields) ELSE NoData >>

DescribesWhatParseStored ==
    (Reads("Describe") /\ lastMsg'.kind = "Statement") =>
        /\ pc' = "loop"
        /\ IF lastMsg'.name \in DOMAIN statements
           THEN /\ lastOut' = Described(statements[lastMsg'.name])
                /\ lastOut'[1].tag = "ParameterDescription"
                /\ lastOut'[2].tag \in {"NoData", "RowDescription"}
           ELSE lastOut' =
                    <<ErrorResponse("Error", "InvalidSqlStatement", "missing statement")>>

\* A successful Parse of the text the entry under the same name came from.
ReparsesSameText ==
    /\ Reads("Parse")
    /\ lastRes' = "ok"
    /\ lastMsg'.name \in DOMAIN statements
    /\ parsedWith[lastMsg'.name].query = lastMsg'.query

\* C10 as claimed: Describe(Statement, n) of a name in the catalog writes the
\* ParameterDescription and then one of NoData or RowDescription, as the last
\* successful Parse(n, s) stored them, and a repeated Parse(n, s) of the same s
\* makes it write the same again; on an unknown name it writes only the
\* InvalidSqlStatement ErrorResponse.
C10_DescribeStatementRepeats ==
    [][ /\ DescribesWhatParseStored
        /\ ReparsesSameText =>
              Described(statements'[lastMsg'.name]) = Described(statements[lastMsg'.name])
      ]_vars

\* C10 as amended: the same, but a repeated Parse(n, s) makes Describe write
\* the same ParameterDescription always, and the same NoData or RowDescription
\* when the transport gave both Parses the same metadata.
C10_DescribeStatementRepeatsUnderSameMeta ==
    [][ /\ DescribesWhatParseStored
        /\ ReparsesSameText =>
              /\ statements'[lastMsg'.name].parameters
                    = statements[lastMsg'.name].parameters
              /\ parsedWith'[lastMsg'.name].meta = parsedWith[lastMsg'.name].meta
                    => Described(statements'[lastMsg'.name])
                          = Described(statements[lastMsg'.name])
      ]_vars

\* A Describe of a statement with a placeholder and a row description.
C10_Witness ==
    /\ InLoop("Describe")
    /\ lastMsg.kind = "Statement"
    /\ Len(lastOut) = 2
    /\ lastOut[1].args # <<>>
    /\ lastOut[2].tag = "RowDescription"

\* C11: an Execute whose portal name is not in the portal catalog is answered
\* with exactly one ReadyForQuery(Idle) and nothing else (no ErrorResponse, no
\* row, no completion message); the handler returns Ok, the loop goes on and
\* both catalogs stay as they are.
C11_ExecuteOfUnknownPortal ==
    [][ (Reads("Execute") /\ lastMsg'.name \notin DOMAIN portals) =>
            /\ lastRes' = "ok"
            /\ lastErr' = ""
            /\ lastOut' = <<ReadyForQuery>>
            /\ pc' = "loop"
            /\ statements' = statements
            /\ portals' = portals ]_vars

\* An Execute of an unknown portal while a statement is in its catalog.
C11_Witness ==
    /\ InLoop("Execute")
    /\ lastMsg.name \notin DOMAIN portals
    /\ lastOut = <<ReadyForQuery>>
    /\ \E n \in DOMAIN statements : statements[n].some

\* An Execute of a portal that holds a plan, which runs without a failure.
ExecutesPortal ==
    /\ Reads("Execute")
    /\ lastMsg'.name \in DOMAIN portals
    /\ portals[lastMsg'.name].some
    /\ lastRes' = "ok"

\* The numbers of the rows among the messages out, in the order written.
RowNumbers(out) ==
    LET rows == SelectSeq(out, LAMBDA m : m.tag = "DataRow")
    IN  [i \in DOMAIN rows |-> rows[i].n]

\* C12: for a portal whose plan yields total rows, an Execute with max_rows = 0
\* on the fresh portal writes all rows and then CommandComplete; one with
\* max_rows = k, 0 < k < total, writes exactly k DataRows and then
\* PortalSuspended. The portal stays in the catalog with its cursor moved past
\* the rows written, and every Execute writes the rows that follow the cursor,
\* in order and none beyond the last: over a sequence of Executes each row is
\* sent once and in order.
C12_ExecuteStreamsAndResumes ==
    [][ ExecutesPortal =>
            LET old == portals[lastMsg'.name]
                new == portals'[lastMsg'.name]
                total == old.plan.nrows
                k == lastMsg'.max_rows
                sent == RowNumbers(lastOut')
                completion == lastOut'[Len(lastOut')]
            IN  /\ pc' = "loop"
                /\ DOMAIN portals' = DOMAIN portals
                /\ new = [old EXCEPT !.pos = old.pos + Len(sent)]
                /\ new.pos <= total
                /\ Len(lastOut') = Len(sent) + 1
                /\ \A i \in DOMAIN sent : sent[i] = old.pos + i
                /\ completion.tag \in {"CommandComplete", "PortalSuspended"}
                /\ completion.tag = "CommandComplete" <=> new.pos = total
                /\ k = 0 => new.pos = total
                /\ (old.pos = 0 /\ 0 < k /\ k < total) =>
                        /\ Len(sent) = k
                        /\ completion = PortalSuspended ]_vars

\* An Execute that resumed a suspended portal and sent its last row.
C12_Witness ==
    /\ InLoop("Execute")
    /\ lastMsg.name \in DOMAIN portals
    /\ lastMsg.max_rows > 0
    /\ portals[lastMsg.name].pos = MaxRows
    /\ RowNumbers(lastOut) = <<MaxRows>>
    /\ lastOut[Len(lastOut)].tag = "CommandComplete"

\* A startup packet is read in this step.
ReadsStartup == pc \in {"startup", "startup_ssl"} /\ lastMsg'.typ = "Startup"

\* run_on has returned after run() returned Ok: the socket was shut down.
EndsConnection == pc' = "done" /\ shutdown' /\ result' \in {"Ok", "ShutdownError"}

\* C13: the startup phase asks for the cleartext password, and goes on to
\* authentication with the database defaulted to "db", iff a startup packet of
\* version 3.0 with a user arrives first or right after one SSL request.
\* Otherwise the connection ends and no password is asked for: another
\* version gets the Fatal FeatureNotSupported error, whether or not a user is
\* given, a missing user the Fatal InvalidAuthorizationSpecification error,
\* and an SSL request an SSLResponse, after which the startup is read once
\* more if it was the first packet and the connection ends if it was the second.
C13_StartupAsksForPassword ==
    [][ /\ ReadsStartup =>
            LET version == lastMsg'.version
                params == lastMsg'.parameters
                accepted == version = <<3, 0>> /\ "user" \in DOMAIN params
            IN  /\ accepted <=> pc' = "password"
                /\ accepted <=> Tagged(lastOut', "Authentication") # {}
                /\ accepted =>
                      /\ lastOut' = <<Authentication("CleartextPassword")>>
                      /\ DOMAIN parameters' = {"user", "database"}
                      /\ parameters'["user"] = params["user"]
                      /\ parameters'["database"] =
                            IF "database" \in DOMAIN params THEN params["database"]
                            ELSE "db"
                /\ version[1] = SSL_REQUEST_PROTOCOL =>
                      /\ lastOut' = <<SSLResponse>>
                      /\ IF pc = "startup" THEN pc' = "startup_ssl" ELSE EndsConnection
                /\ (version[1] # SSL_REQUEST_PROTOCOL /\ version # <<3, 0>>) =>
                      /\ Len(lastOut') = 1
                      /\ lastOut'[1].tag = "ErrorResponse"
                      /\ lastOut'[1].args[1] = "Fatal"
                      /\ lastOut'[1].args[2] = "FeatureNotSupported"
                      /\ EndsConnection
                /\ (version = <<3, 0>> /\ "user" \notin DOMAIN params) =>
                      /\ Len(lastOut') = 1
                      /\ lastOut'[1].tag = "ErrorResponse"
                      /\ lastOut'[1].args[1] = "Fatal"
                      /\ lastOut'[1].args[2] = "InvalidAuthorizationSpecification"
                      /\ EndsConnection
        /\ (pc # "startup_ssl" /\ pc' = "startup_ssl") =>
              pc = "startup" /\ lastMsg'.version[1] = SSL_REQUEST_PROTOCOL
        /\ (pc # "password" /\ pc' = "password") => ReadsStartup ]_vars

\* A startup packet without a database was accepted.
C13_Witness ==
    /\ pc = "password"
    /\ lastMsg.typ = "Startup"
    /\ "database" \notin DOMAIN lastMsg.parameters
    /\ parameters["database"] = "db"
    /\ lastOut = <<Authentication("CleartextPassword")>>

\* C14: authentication succeeds iff the auth provider answers Ok and either
\* names no password or names the password of the PasswordMessage. On success
\* the user and the provider's context are stored on the session and
\* AuthenticationOk is written; on failure the Fatal InvalidPassword error is
\* written, the connection ends and the session holds neither a user nor a
\* context, even when the provider gave one. Any other message in place of
\* the PasswordMessage ends the connection without a reply.
C14_AuthenticationDecides ==
    [][ pc = "password" =>
            /\ lastMsg'.typ = "PasswordMessage" =>
                  LET response == lastAuth'
                      success ==
                          /\ response.ok
                          /\ response.password.some =>
                                response.password.value = lastMsg'.password
                  IN  /\ success <=> pc' = "loop"
                      /\ success <=> Authentication("Ok") \in
                                        {lastOut'[i] : i \in DOMAIN lastOut'}
                      /\ success =>
                            /\ user' = parameters["user"]
                            /\ auth_context' = [some |-> TRUE, context |-> response.context]
                            /\ lastOut'[1] = Authentication("Ok")
                            /\ Tagged(lastOut', "ErrorResponse") = {}
                      /\ ~success =>
                            /\ Len(lastOut') = 1
                            /\ lastOut'[1].tag = "ErrorResponse"
                            /\ lastOut'[1].args[1] = "Fatal"
                            /\ lastOut'[1].args[2] = "InvalidPassword"
                            /\ EndsConnection
                            /\ user' = ""
                            /\ auth_context' = NoAuthContext
            /\ lastMsg'.typ \notin {"PasswordMessage", "ReadError"} =>
                  /\ lastOut' = <<>>
                  /\ EndsConnection
                  /\ user' = ""
                  /\ auth_context' = NoAuthContext ]_vars

\* The provider gave a context and a password, the client another password.
C14_Witness ==
    /\ pc = "done"
    /\ lastMsg.typ = "PasswordMessage"
    /\ lastAuth.ok
    /\ lastAuth.password.some
    /\ lastAuth.password.value # lastMsg.password
    /\ auth_context = NoAuthContext
    /\ Len(lastOut) = 1

\* C15: session_manager.drop_session is called exactly once on every way out
\* of run_on (startup denied, no PasswordMessage, failed authentication,
\* Terminate, unsupported message, a read error before or after
\* authentication, a failing socket shutdown), and not before run_on is left.
C15_DropsSessionOnce ==
    /\ pc = "done" <=> result # "running"
    /\ pc = "done" => dropped = 1
    /\ pc # "done" => dropped = 0

\* run_on was left through a failing socket shutdown.
C15_Witness ==
    /\ pc = "done"
    /\ result = "ShutdownError"
    /\ shutdown
    /\ dropped = 1

\* C16: once the auth context is set on the session no later step, of a
\* handler, of an error path or of the teardown, clears or replaces it.
C16_AuthContextIsKept ==
    [][ auth_context.some => auth_context' = auth_context ]_vars

\* A connection torn down on an unsupported message, its context still set.
C16_Witness ==
    /\ pc = "done"
    /\ result = "Unsupported"
    /\ auth_context.some

\* C17: when a read fails, run_on returns Ok exactly when the failure is an
\* EOF and the session's auth context is unset, which is so during startup and
\* while the PasswordMessage is waited for; an EOF after authentication and
\* any other I/O error at any time is returned as the error.
C17_EofBeforeAuthenticationIsBenign ==
    [][ (pc # "done" /\ lastMsg'.typ = "ReadError") =>
            LET eof == lastMsg'.kind = "UnexpectedEof"
            IN  /\ pc' = "done"
                /\ ~shutdown'
                /\ auth_context.some <=> pc = "loop"
                /\ result' = "Ok" <=> (eof /\ ~auth_context.some)
                /\ result' = "Ok" <=> (eof /\ pc \in {"startup", "startup_ssl", "password"})
                /\ result' # "Ok" => result' = lastMsg'.kind ]_vars

\* An EOF after authentication, returned as an error.
C17_Witness ==
    /\ pc = "done"
    /\ lastMsg.typ = "ReadError"
    /\ lastMsg.kind = "UnexpectedEof"
    /\ auth_context.some
    /\ result = "UnexpectedEof"

\* C18: a Query, Parse, Bind, Execute, Describe, Close or Sync is handed to
\* its handler only in the dispatch loop, which is entered only by the step
\* that reads the PasswordMessage, authenticates it and writes
\* AuthenticationOk, the four ParameterStatus messages and ReadyForQuery(Idle)
\* in this order; that step follows the startup step that wrote
\* AuthenticationCleartextPassword. So the auth context is set whenever a
\* handler runs, and no handler fails with "must be auth".
C18_HandlersRunAfterAuthentication ==
    [][ /\ lastRes' # "none" =>
            /\ pc = "loop"
            /\ auth_context.some
            /\ lastErr' # "must be auth"
        /\ (pc # "loop" /\ pc' = "loop") =>
            /\ pc = "password"
            /\ lastMsg'.typ = "PasswordMessage"
            /\ auth_context'.some
            /\ lastOut' = << Authentication("Ok"),
                             ParameterStatus("server_version", "14.2 (Cube SQL)"),
                             ParameterStatus("server_encoding", "UTF8"),
                             ParameterStatus("client_encoding", "UTF8"),
                             ParameterStatus("DateStyle", "ISO"),
                             ReadyForQuery >>
        /\ (pc # "password" /\ pc' = "password") =>
            /\ pc \in {"startup", "startup_ssl"}
            /\ lastOut' = <<Authentication("CleartextPassword")>>
        /\ pc \in {"startup", "startup_ssl"} => pc' # "loop" ]_vars

\* A Parse that asked the transport for the metadata and stored a statement.
C18_Witness ==
    /\ InLoop("Parse")
    /\ lastRes = "ok"
    /\ statements[lastMsg.name].some
    /\ statements[lastMsg.name].description.some
    /\ auth_context.some

\* C19: the reply to an Execute of a portal that holds a plan, and to a Query,
\* is in this order: (Query only) one NoData or RowDescription, then the rows
\* of the batch, if any, one after the other, then one CommandComplete or
\* PortalSuspended when the command did not fail; no row follows the
\* completion message, a failed Query writes neither, and all of it is
\* written in the step that read the message, before the next one is read.
C19_RowsBetweenDescriptionAndCompletion ==
    (lastRes \in {"ok", "err"} /\ lastMsg.typ \in {"Execute", "Query"}) =>
        LET rows == Tagged(lastOut, "DataRow")
            completions == Tagged(lastOut, "CommandComplete")
                              \cup Tagged(lastOut, "PortalSuspended")
            heads == Tagged(lastOut, "NoData") \cup Tagged(lastOut, "RowDescription")
        IN  /\ Cardinality(completions) <= 1
            /\ \A r \in rows, c \in completions : r < c
            /\ \A h \in heads : \A i \in rows \cup completions : h < i
            /\ \A i, j \in rows : \A k \in i..j : k \in rows
            /\ rows # {} => \E c \in completions : c - 1 \in rows
            /\ lastMsg.typ = "Query" =>
                  /\ lastOut[Len(lastOut)] = ReadyForQuery
                  /\ IF lastErr = ""
                     THEN /\ heads = {1}
                          /\ completions = {Len(lastOut) - 1}
                          /\ rows = 2..(Len(lastOut) - 2)
                     ELSE /\ rows = {}
                          /\ completions = {}
                          /\ heads \subseteq {1}
            /\ ( /\ lastMsg.typ = "Execute"
                 /\ lastMsg.name \in DOMAIN portals
                 /\ portals[lastMsg.name].some ) =>
                  /\ heads = {}
                  /\ completions = {Len(lastOut)}
                  /\ rows = 1..(Len(lastOut) - 1)

\* A Query answered with its row description, every row and CommandComplete.
C19_Witness ==
    /\ InLoop("Query")
    /\ lastErr = ""
    /\ lastOut[1].tag = "RowDescription"
    /\ Cardinality(Tagged(lastOut, "DataRow")) = MaxRows
    /\ lastOut[Len(lastOut) - 1].tag = "CommandComplete"

\* The portal carries a row description iff its plan has an output column:
\* none for MetaOk, one TEXT field per frame column for MetaTabular, one field
\* per schema column for DataFusionSelect.
DescribedAsPlanned(portal) ==
    /\ portal.description.some <=> Len(portal.plan.cols) > 0
    /\ portal.plan.kind = "MetaOk" => ~portal.description.some
    /\ portal.description.some =>
          /\ Len(portal.description.fields) = Len(portal.plan.cols)
          /\ \A i \in DOMAIN portal.plan.cols :
                /\ portal.description.fields[i].name = portal.plan.cols[i].name
                /\ portal.plan.kind = "MetaTabular" =>
                      portal.description.fields[i].typ = "TEXT"

\* C20 as claimed: every Portal the shim creates, stored by Bind or made for
\* one simple Query, carries a row description iff its plan has an output
\* column.
C20_EveryPortalIsDescribed ==
    lastPortal.some => DescribedAsPlanned(lastPortal)

\* C20 as amended: every Portal Bind creates and every portal in the catalog
\* carries a row description iff its plan has an output column; the Portal
\* made for a simple Query carries none whatever its plan, its row description
\* (NoData when the plan has no column) being written before it is made.
C20_EveryBoundPortalIsDescribed ==
    /\ \A n \in DOMAIN portals : portals[n].some => DescribedAsPlanned(portals[n])
    /\ (InLoop("Bind") /\ lastPortal.some) =>
          /\ DescribedAsPlanned(lastPortal)
          /\ portals[lastMsg.name] = lastPortal
    /\ (InLoop("Bind") /\ lastRes = "ok") =>
          lastPortal.some <=> portals[lastMsg.name].some
    /\ (InLoop("Query") /\ lastPortal.some) =>
          /\ ~lastPortal.description.some
          /\ lastPortal.format = "Text"
          /\ lastOut[1].tag = IF Len(lastPortal.plan.cols) > 0 THEN "RowDescription"
                               ELSE "NoData"
          /\ Len(lastOut[1].cols) = Len(lastPortal.plan.cols)
    /\ lastPortal.some => lastMsg.typ \in {"Bind", "Query"}

\* A Bind that stored the portal of a small table, described by a TEXT field.
C20_Witness ==
    /\ InLoop("Bind")
    /\ lastPortal.some
    /\ lastPortal.plan.kind = "MetaTabular"
    /\ lastPortal.description.some
    /\ lastPortal.description.fields[1].typ = "TEXT"

\* The messages the dispatch loop hands to a handler.
Dispatched == {"Query", "Parse", "Bind", "Execute", "Describe", "Close", "Sync"}

\* The dispatch loop reads Terminate or a message it does not support.
LeavesLoop == pc = "loop" /\ lastMsg'.typ \notin Dispatched \cup {"ReadError"}

\* The connection is over: no reply, the session dropped, nothing read after.
Closes ==
    /\ pc' = "done"
    /\ lastOut' = <<>>
    /\ dropped' = 1

\* C21 as claimed: in the dispatch loop a message other than Query, Parse,
\* Bind, Execute, Describe, Close, Sync and Terminate, and Terminate
\* likewise, makes the loop return without a reply, which shuts the socket
\* down and drops the session; no message is read afterwards.
C21_LeavingTheLoopShutsDown ==
    [][ /\ LeavesLoop => (Closes /\ shutdown')
        /\ pc # "done" ]_vars

\* C21 as amended: both end the connection without a reply, drop the session
\* once, and no message is read afterwards; Terminate makes run return Ok, on
\* which run_on shuts the socket down, while an unsupported message makes run
\* return an Unsupported error, which run_on returns without shutting the
\* socket down.
C21_LeavingTheLoopClosesTheConnection ==
    [][ /\ LeavesLoop =>
            /\ Closes
            /\ IF lastMsg'.typ = "Terminate"
               THEN shutdown' /\ result' \in {"Ok", "ShutdownError"}
               ELSE ~shutdown' /\ result' = "Unsupported"
        /\ pc # "done" ]_vars

\* A second PasswordMessage ended the connection.
C21_Witness ==
    /\ pc = "done"
    /\ lastMsg.typ = "PasswordMessage"
    /\ result = "Unsupported"
    /\ ~shutdown
    /\ dropped = 1
    /\ lastOut = <<>>

\* after differs from before at most in the entry of name.
OnlyAt(after, before, name) ==
    /\ DOMAIN after \ {name} = DOMAIN before \ {name}
    /\ \A n \in DOMAIN after \ {name} : after[n] = before[n]

\* The dispatch loop serves a message of type typ and its handler returns res.
Returns(typ, res) == Reads(typ) /\ lastRes' = res

\* What every operation leaves alone, Execute apart.
FrameOfAllButExecute ==
    /\ Returns("Parse", "ok") =>
          /\ portals' = portals
          /\ OnlyAt(statements', statements, lastMsg'.name)
          /\ lastMsg'.name \in DOMAIN statements'
    /\ Returns("Bind", "ok") =>
          /\ statements' = statements
          /\ OnlyAt(portals', portals, lastMsg'.name)
          /\ lastMsg'.name \in DOMAIN portals'
    /\ (Returns("Parse", "err") \/ Returns("Bind", "err")) =>
          statements' = statements /\ portals' = portals
    /\ Reads("Close") =>
          IF lastMsg'.kind = "Statement"
          THEN /\ portals' = portals
               /\ OnlyAt(statements', statements, lastMsg'.name)
               /\ lastMsg'.name \notin DOMAIN statements'
          ELSE /\ statements' = statements
               /\ OnlyAt(portals', portals, lastMsg'.name)
               /\ lastMsg'.name \notin DOMAIN portals'
    /\ (Reads("Query") \/ Reads("Describe") \/ Reads("Sync")) =>
          statements' = statements /\ portals' = portals
    /\ pc' = "loop" =>
          /\ DOMAIN statements' = DOMAIN parsedWith'
          /\ DOMAIN portals' = DOMAIN boundFrom'

\* C22 as claimed: a successful Parse changes only the statement catalog at
\* its name, a successful Bind only the portal catalog at its destination
\* name, a Close only the named entry of the catalog of its kind; Query,
\* Describe, Execute and Sync and every Parse or Bind that returns an error
\* leave both catalogs as they are. So the names in each catalog are those
\* parsed or bound and not closed, and closing or re-parsing a statement
\* leaves the portals bound from it as they are.
C22_OneCatalogOneName ==
    [][ /\ FrameOfAllButExecute
        /\ Returns("Execute", "ok") =>
              statements' = statements /\ portals' = portals ]_vars

\* C22 as amended: the same, but an Execute of a portal that holds a plan
\* changes the portal catalog at its name: the entry keeps its plan, format
\* and description and its cursor moves on; the names in both catalogs and
\* every other entry stay. A handler that panics ends the connection, and
\* both catalogs with it.
C22_OneCatalogOneNameCursorApart ==
    [][ /\ FrameOfAllButExecute
        /\ Returns("Execute", "ok") =>
              /\ statements' = statements
              /\ DOMAIN portals' = DOMAIN portals
              /\ OnlyAt(portals', portals, lastMsg'.name)
              /\ lastMsg'.name \in DOMAIN portals =>
                    /\ portals'[lastMsg'.name].pos >= portals[lastMsg'.name].pos
                    /\ [portals'[lastMsg'.name] EXCEPT !.pos = 0]
                          = [portals[lastMsg'.name] EXCEPT !.pos = 0]
        /\ (pc = "loop" /\ lastRes' = "panic") =>
              /\ pc' = "done"
              /\ statements' = EmptyMap
              /\ portals' = EmptyMap ]_vars

\* A statement was closed and a portal bound from it is still in its catalog,
\* next to a statement under the other name.
C22_Witness ==
    /\ InLoop("Close")
    /\ lastMsg.kind = "Statement"
    /\ lastMsg.name \notin DOMAIN statements
    /\ DOMAIN statements # {}
    /\ \E p \in DOMAIN portals :
          portals[p].some /\ boundFrom[p] = lastMsg.name

====
